---- MODULE Spec2Model ----
(***************************************************************************)
(* Excel-to-ICS converter (src/script.py): import_files drives             *)
(* convert_xlsx_to_ics over a batch of spreadsheets; each row of a sheet   *)
(* is expanded week by week through create_events_from_pattern; the        *)
(* collected events are written to <base>.ics in the output directory.     *)
(*                                                                         *)
(* Representation.  A calendar date is its day number, day 0 being a       *)
(* Monday, so date.weekday() is d % 7.  A text is a sequence of tokens:    *)
(* a day-token character ("M", "T", "H", ...), a separator ("|", "-",      *)
(* "\n", " "), a clock text ("9:00 AM") or a word.  Splitting, stripping   *)
(* and replacing work on these sequences as the str methods do on          *)
(* characters.  A spreadsheet cell is a record [k, v]: k = "nan" (empty),  *)
(* "date" (v a day number), "text" (v a token sequence) or "bad" (a value  *)
(* pd.to_datetime rejects).                                                *)
(***************************************************************************)
EXTENDS Integers, Sequences, FiniteSets, TLC

\* ---------------------------------------------------------------- bounds
MaxDay == 13
MaxFiles == 2
MaxHeaders == 4
MaxRows == 2

\* ------------------------------------------------------------- constants
\* DAY_MAP = {"M":0, "T":1, "W":2, "TH":3, "F":4, "S":5, "SU":6}
DAY_MAP == [M |-> 0, T |-> 1, W |-> 2, TH |-> 3, F |-> 4, S |-> 5, SU |-> 6]

required_cols ==
  << <<"Course", " ", "Listing">>, <<"Meeting", " ", "Patterns">>,
     <<"Start", " ", "Date">>, <<"End", " ", "Date">> >>

\* ------------------------------------------------------- string helpers
\* str.upper on the one- and two-character keys the day loop looks up.
Upper(c) ==
  CASE c = "m" -> "M" [] c = "t" -> "T" [] c = "w" -> "W" [] c = "h" -> "H"
    [] c = "f" -> "F" [] c = "s" -> "S" [] c = "u" -> "U" [] c = "x" -> "X"
    [] OTHER -> c

\* str.lower on a header word.
Lower(w) ==
  CASE w = "Course" -> "course" [] w = "COURSE" -> "course"
    [] w = "Listing" -> "listing"
    [] w = "Meeting" -> "meeting" [] w = "Patterns" -> "patterns"
    [] w = "Pattern" -> "pattern"
    [] w = "Start" -> "start" [] w = "End" -> "end" [] w = "Date" -> "date"
    [] w = "Attendance" -> "attendance" [] w = "Notes" -> "notes"
    [] w = "Room" -> "room"
    [] OTHER -> w

\* The keywords that occur as substrings of a lower-case word.
KeywordsIn(w) ==
  CASE w = "course" -> {"course"}
    [] w = "meeting" -> {"meeting"}
    [] w = "patterns" -> {"pattern"}
    [] w = "pattern" -> {"pattern"}
    [] w = "start" -> {"start"}
    [] w = "end" -> {"end"}
    [] w = "attendance" -> {"end"}
    [] OTHER -> {}

\* `kw in col.lower()` for a header that is a sequence of words.
Contains(col, kw) == \E i \in 1..Len(col) : kw \in KeywordsIn(Lower(col[i]))

RECURSIVE LStrip(_)
LStrip(s) == IF s # <<>> /\ Head(s) = " " THEN LStrip(Tail(s)) ELSE s

RECURSIVE RStrip(_)
RStrip(s) ==
  IF s # <<>> /\ s[Len(s)] = " " THEN RStrip(SubSeq(s, 1, Len(s) - 1)) ELSE s

\* str.strip
Strip(s) == RStrip(LStrip(s))

\* str.split(sep): the pieces between the occurrences of sep (never empty
\* as a list: a text without sep is one piece).
RECURSIVE SplitFrom(_, _, _)
SplitFrom(s, sep, cur) ==
  IF s = <<>> THEN <<cur>>
  ELSE IF Head(s) = sep THEN <<cur>> \o SplitFrom(Tail(s), sep, <<>>)
  ELSE SplitFrom(Tail(s), sep, Append(cur, Head(s)))

Split(s, sep) == SplitFrom(s, sep, <<>>)

\* str.splitlines: as split on the line break, but an empty text has no
\* line and a final line break opens no further line.
SplitLines(s) ==
  LET p == Split(s, "\n")
  IN  IF s = <<>> THEN <<>>
      ELSE IF p[Len(p)] = <<>> THEN SubSeq(p, 1, Len(p) - 1) ELSE p

\* days.replace("TH", "H"): leftmost, non-overlapping.
RECURSIVE ReplaceTH(_)
ReplaceTH(s) ==
  IF s = <<>> THEN <<>>
  ELSE IF Len(s) >= 2 /\ s[1] = "T" /\ s[2] = "H"
       THEN <<"H">> \o ReplaceTH(SubSeq(s, 3, Len(s)))
       ELSE <<Head(s)>> \o ReplaceTH(Tail(s))

\* ------------------------------------------------------------ clock texts
\* The fields strptime reads from a clock text: hour, minute, AM/PM marker
\* (ap = "" when the text carries none).
ClockOf(t) ==
  CASE t = "9:00 AM"  -> [hh |-> 9,  mm |-> 0,  ap |-> "AM"]
    [] t = "9:50 AM"  -> [hh |-> 9,  mm |-> 50, ap |-> "AM"]
    [] t = "12:10 PM" -> [hh |-> 12, mm |-> 10, ap |-> "PM"]
    [] t = "1:00 PM"  -> [hh |-> 1,  mm |-> 0,  ap |-> "PM"]
    [] t = "12:30 AM" -> [hh |-> 12, mm |-> 30, ap |-> "AM"]
    [] t = "13:00 PM" -> [hh |-> 13, mm |-> 0,  ap |-> "PM"]
    [] t = "9:00"     -> [hh |-> 9,  mm |-> 0,  ap |-> ""]
    [] t = "9:75 AM"  -> [hh |-> 9,  mm |-> 75, ap |-> "AM"]
    [] OTHER          -> [hh |-> 0,  mm |-> 0,  ap |-> ""]

\* Whether datetime.strptime(t, "%I:%M %p") accepts the stripped text t.
StrptimeOk(t) ==
  /\ Len(t) = 1
  /\ LET c == ClockOf(t[1])
     IN  c.hh \in 1..12 /\ c.mm \in 0..59 /\ c.ap \in {"AM", "PM"}

\* datetime.strptime(t, "%I:%M %p").time() as minutes after midnight.
Strptime(t) ==
  LET c == ClockOf(t[1])
  IN  (c.hh % 12) * 60 + c.mm + (IF c.ap = "PM" THEN 720 ELSE 0)

\* ------------------------------------------------------------------ cells
IsNa(cell) == cell.k = "nan"

\* pd.isna of a Python str: never true (line 51 tests the str() of the cell).
IsNaStr(s) == FALSE

\* str(cell): the text of a text cell, "nan" for an empty one.
StrOf(cell) == IF cell.k = "text" THEN cell.v ELSE <<"nan">>

\* Whether pd.to_datetime(cell).date() succeeds (ValueError or TypeError
\* otherwise): only a date cell parses.
ToDatetimeOk(cell) == cell.k = "date"

ToDatetime(cell) == cell.v

\* date.weekday(): Monday is 0.
Weekday(d) == d % 7

\* ------------------------------------------- create_events_from_pattern
NoRaise(events) == [raised |-> FALSE, kind |-> "", events |-> events]

Raise(kind) == [raised |-> TRUE, kind |-> kind, events |-> <<>>]

MakeEvent(ctx, event_date) ==
  [summary     |-> ctx.course,
   dtstart     |-> [date |-> event_date, time |-> Strptime(ctx.start_time_str)],
   dtend       |-> [date |-> event_date, time |-> Strptime(ctx.end_time_str)],
   description |-> [line |-> ctx.line, location |-> ctx.location]]

\* event_date = week_start_date + timedelta(days=(weekday - week_start_date.weekday()) % 7)
EventDate(week_start_date, weekday) ==
  week_start_date + ((weekday - Weekday(week_start_date)) % 7)

\* The key looked up in DAY_MAP for one character of temp_days.
DayKey(c) == Upper(IF c = "H" THEN "TH" ELSE c)

\* for day_char in temp_days: ... (lines 89-108)
RECURSIVE DayLoop(_, _, _)
DayLoop(ctx, temp_days, events) ==
  IF temp_days = <<>> THEN NoRaise(events)
  ELSE LET key == DayKey(Head(temp_days))
       IN  IF key \notin DOMAIN DAY_MAP
           THEN DayLoop(ctx, Tail(temp_days), events)
           ELSE LET event_date == EventDate(ctx.week_start_date, DAY_MAP[key])
                IN  IF event_date > ctx.semester_end_date
                    THEN DayLoop(ctx, Tail(temp_days), events)
                    ELSE IF ~StrptimeOk(ctx.start_time_str)
                            \/ ~StrptimeOk(ctx.end_time_str)
                         THEN Raise("strptime")
                         ELSE DayLoop(ctx, Tail(temp_days),
                                      Append(events, MakeEvent(ctx, event_date)))

\* [p.strip() for p in text.split(sep)]
StripSplit(text, sep) ==
  LET p == Split(text, sep) IN [i \in 1..Len(p) |-> Strip(p[i])]

RECURSIVE LinesLoop(_, _, _)

\* Mutant: `break` in place of `continue`.
OnShortLineBreak(env, rest, events) == NoRaise(events)

\* `if len(parts) < 2: continue`
OnShortLine(env, rest, events) == LinesLoop(env, rest, events)

\* for line in pattern_text.splitlines(): ... (lines 79-108)
LinesLoop(env, lines, events) ==
  IF lines = <<>> THEN NoRaise(events)
  ELSE LET line == Head(lines)
           parts == StripSplit(line, "|")
       IN  IF Len(parts) < 2 THEN OnShortLine(env, Tail(lines), events)
           ELSE LET days == parts[1]
                    times == StripSplit(parts[2], "-")
                    location == IF Len(parts) > 2 THEN parts[3] ELSE <<>>
                IN  IF Len(times) # 2 THEN Raise("unpack")
                    ELSE LET ctx == [course |-> env.course,
                                     week_start_date |-> env.week_start_date,
                                     semester_end_date |-> env.semester_end_date,
                                     line |-> line, location |-> location,
                                     start_time_str |-> times[1],
                                     end_time_str |-> times[2]]
                             r == DayLoop(ctx, ReplaceTH(days), events)
                         IN  IF r.raised THEN r
                             ELSE LinesLoop(env, Tail(lines), r.events)

\* The result of the call: the list of events, or the ValueError raised.
create_events_from_pattern(course, pattern_text, week_start_date, semester_end_date) ==
  LinesLoop([course |-> course, week_start_date |-> week_start_date,
             semester_end_date |-> semester_end_date],
            SplitLines(pattern_text), <<>>)

\* ------------------------------------------------------ convert_xlsx_to_ics
\* Mutant: the "start" branch tested before the "course" branch.
RenameOfStartFirst(col) ==
  IF Contains(col, "start") THEN required_cols[3]
  ELSE IF Contains(col, "course") THEN required_cols[1]
  ELSE IF Contains(col, "pattern") \/ Contains(col, "meeting") THEN required_cols[2]
  ELSE IF Contains(col, "end") THEN required_cols[4]
  ELSE col

\* The canonical name the if/elif chain of lines 26-33 gives a stripped
\* header, or the header itself when no branch matches (no rename).
RenameOf(col) ==
  IF Contains(col, "course") THEN required_cols[1]
  ELSE IF Contains(col, "pattern") \/ Contains(col, "meeting") THEN required_cols[2]
  ELSE IF Contains(col, "start") THEN required_cols[3]
  ELSE IF Contains(col, "end") THEN required_cols[4]
  ELSE col

\* df.columns after the strip of line 19 and the rename of line 34.
RenamedColumns(headers) ==
  [i \in 1..Len(headers) |-> RenameOf(Strip(headers[i]))]

\* missing = [col for col in required_cols if col not in df.columns]
Missing(columns) ==
  SelectSeq(required_cols, LAMBDA c : ~\E i \in 1..Len(columns) : columns[i] = c)

\* df['Course Listing'].ffill(): an empty course cell takes the nearest
\* non-empty one above it (and stays empty when there is none).
FFill(rows) ==
  [i \in 1..Len(rows) |->
     LET above == {j \in 1..i : ~IsNa(rows[j].course)}
     IN  IF above = {} THEN rows[i]
         ELSE [rows[i] EXCEPT
                 !.course = rows[CHOOSE j \in above : \A k \in above : k <= j].course]]

\* ------------------------------------------------------------------ state
VARIABLES
  file_paths,    \* the files the open dialog returned, in order
  fi,            \* import_files: position of the for loop over file_paths
  pc,            \* where control is
  converted,     \* import_files: base names of the outputs returned so far
  dialogs,       \* the message boxes shown, in order
  output_dir,    \* the destination directory: base name -> [exists, data]
  file_listbox,  \* the names the list box shows
  df,            \* convert: the table after rename and forward fill
  ri,            \* convert: position of the loop over df's rows
  week_start,    \* convert: week_start of the while loop
  end_dt,        \* convert: end_dt of the current row
  cal,           \* convert: the components added to the Calendar
  exc,           \* the exception in flight or last handled
  written        \* history: positions in file_paths whose output was written

vars == <<file_paths, fi, pc, converted, dialogs, output_dir, file_listbox,
          df, ri, week_start, end_dt, cal, exc, written>>

convert_vars == <<df, ri, week_start, end_dt, cal>>

NoExc == [type |-> "", kind |-> "", cols |-> <<>>]

NoTable == [columns |-> <<>>, rows |-> <<>>]

Absent == [exists |-> FALSE, data |-> <<>>]

\* os.listdir(output_dir)
ListDir(dir) == {n \in DOMAIN dir : dir[n].exists}

\* The exception leaves convert_xlsx_to_ics towards the except clauses.
RaiseFrom(type, kind, cols) ==
  /\ exc' = [type |-> type, kind |-> kind, cols |-> cols]
  /\ pc' = "except"

\* The for loop of line 128 moves to the next path, or ends.
LoopNext ==
  /\ fi' = fi + 1
  /\ pc' = IF fi + 1 > Len(file_paths) THEN "after" ELSE "call"

\* ------------------------------------------------------------ import_files
\* Lines 121-127: the dialog returns the selection; `if file_paths:`.
ImportFiles ==
  /\ pc = "dialog"
  /\ converted' = <<>>
  /\ \/ /\ file_paths # <<>>
        /\ fi' = 1
        /\ pc' = "call"
     \/ /\ file_paths = <<>>
        /\ pc' = "done"
        /\ UNCHANGED fi
  /\ UNCHANGED <<file_paths, dialogs, output_dir, file_listbox, exc, written>>
  /\ UNCHANGED convert_vars

\* Mutant: the output file opened for writing before the sheet is read.
LoadTableOpensOutput ==
  /\ pc = "call"
  /\ LET f == file_paths[fi]
         columns == RenamedColumns(f.headers)
         missing == Missing(columns)
     IN  \/ /\ f.read # "ok"
            /\ RaiseFrom(f.read, "read", <<>>)
            /\ df' = NoTable
         \/ /\ f.read = "ok"
            /\ missing # <<>>
            /\ RaiseFrom("ValueError", "missing", missing)
            /\ df' = [columns |-> columns, rows |-> f.rows]
         \/ /\ f.read = "ok"
            /\ missing = <<>>
            /\ df' = [columns |-> columns, rows |-> FFill(f.rows)]
            /\ pc' = "rows"
            /\ UNCHANGED exc
  /\ ri' = 1
  /\ cal' = <<>>
  /\ week_start' = 0
  /\ end_dt' = 0
  /\ output_dir' = [output_dir EXCEPT
                    ![file_paths[fi].base] = [exists |-> TRUE, data |-> <<>>]]
  /\ UNCHANGED <<file_paths, fi, converted, dialogs, file_listbox, written>>

\* Lines 16-43: read the sheet, rename the headers, check the required
\* columns, forward-fill the course, start an empty Calendar.
LoadTable ==
  /\ pc = "call"
  /\ LET f == file_paths[fi]
         columns == RenamedColumns(f.headers)
         missing == Missing(columns)
     IN  \/ /\ f.read # "ok"
            /\ RaiseFrom(f.read, "read", <<>>)
            /\ df' = NoTable
         \/ /\ f.read = "ok"
            /\ missing # <<>>
            /\ RaiseFrom("ValueError", "missing", missing)
            /\ df' = [columns |-> columns, rows |-> f.rows]
         \/ /\ f.read = "ok"
            /\ missing = <<>>
            /\ df' = [columns |-> columns, rows |-> FFill(f.rows)]
            /\ pc' = "rows"
            /\ UNCHANGED exc
  /\ ri' = 1
  /\ cal' = <<>>
  /\ week_start' = 0
  /\ end_dt' = 0
  /\ UNCHANGED <<file_paths, fi, converted, dialogs, output_dir, file_listbox,
                 written>>

\* Mutant: the date parse outside any try/except.
NextRowNoCatch ==
  /\ pc = "rows"
  /\ ri <= Len(df.rows)
  /\ LET row == df.rows[ri]
         pattern_text == StrOf(row.pattern)
         start_date == row.start
         end_date == row.end
     IN  \/ /\ IsNa(start_date) \/ IsNa(end_date) \/ IsNaStr(pattern_text)
            /\ ri' = ri + 1
            /\ UNCHANGED <<pc, week_start, end_dt, exc>>
         \/ /\ ~(IsNa(start_date) \/ IsNa(end_date) \/ IsNaStr(pattern_text))
            /\ ~(ToDatetimeOk(start_date) /\ ToDatetimeOk(end_date))
            /\ RaiseFrom("ValueError", "to_datetime", <<>>)
            /\ UNCHANGED <<ri, week_start, end_dt>>
         \/ /\ ~(IsNa(start_date) \/ IsNa(end_date) \/ IsNaStr(pattern_text))
            /\ ToDatetimeOk(start_date) /\ ToDatetimeOk(end_date)
            /\ week_start' = ToDatetime(start_date)
            /\ end_dt' = ToDatetime(end_date)
            /\ pc' = "weeks"
            /\ UNCHANGED <<ri, exc>>
  /\ UNCHANGED <<file_paths, fi, converted, dialogs, output_dir, file_listbox,
                 df, cal, written>>

\* Lines 45-61: the next row; a row without dates, or whose dates do not
\* parse, is passed over.
NextRow ==
  /\ pc = "rows"
  /\ ri <= Len(df.rows)
  /\ LET row == df.rows[ri]
         pattern_text == StrOf(row.pattern)
         start_date == row.start
         end_date == row.end
     IN  \/ /\ IsNa(start_date) \/ IsNa(end_date) \/ IsNaStr(pattern_text)
            /\ ri' = ri + 1
            /\ UNCHANGED <<pc, week_start, end_dt>>
         \/ /\ ~(IsNa(start_date) \/ IsNa(end_date) \/ IsNaStr(pattern_text))
            /\ ~(ToDatetimeOk(start_date) /\ ToDatetimeOk(end_date))
            /\ ri' = ri + 1
            /\ UNCHANGED <<pc, week_start, end_dt>>
         \/ /\ ~(IsNa(start_date) \/ IsNa(end_date) \/ IsNaStr(pattern_text))
            /\ ToDatetimeOk(start_date) /\ ToDatetimeOk(end_date)
            /\ week_start' = ToDatetime(start_date)
            /\ end_dt' = ToDatetime(end_date)
            /\ pc' = "weeks"
            /\ UNCHANGED ri
  /\ UNCHANGED <<file_paths, fi, converted, dialogs, output_dir, file_listbox,
                 df, cal, exc, written>>

\* Lines 62-66: one turn of `while week_start <= end_dt`, or its exit.
WeekStep ==
  /\ pc = "weeks"
  /\ LET row == df.rows[ri]
         r == create_events_from_pattern(StrOf(row.course), StrOf(row.pattern),
                                         week_start, end_dt)
     IN  \/ /\ week_start <= end_dt
            /\ r.raised
            /\ RaiseFrom("ValueError", r.kind, <<>>)
            /\ UNCHANGED <<cal, week_start, ri>>
         \/ /\ week_start <= end_dt
            /\ ~r.raised
            /\ cal' = cal \o r.events
            /\ week_start' = week_start + 7
            /\ UNCHANGED <<pc, ri, exc>>
         \/ /\ week_start > end_dt
            /\ ri' = ri + 1
            /\ pc' = "rows"
            /\ UNCHANGED <<cal, week_start, exc>>
  /\ UNCHANGED <<file_paths, fi, converted, dialogs, output_dir, file_listbox,
                 df, end_dt, written>>

\* Lines 68-75 and 131: after the last row the Calendar is written to
\* <base>.ics; import_files appends the returned name to converted.
WriteOutput ==
  /\ pc = "rows"
  /\ ri > Len(df.rows)
  /\ LET f == file_paths[fi]
     IN  \/ /\ f.write = "ok"
            /\ output_dir' = [output_dir EXCEPT ![f.base] = [exists |-> TRUE, data |-> cal]]
            /\ converted' = Append(converted, f.base)
            /\ written' = Append(written, fi)
            /\ LoopNext
            /\ UNCHANGED exc
         \/ /\ f.write = "open fails"
            /\ RaiseFrom("OSError", "write", <<>>)
            /\ UNCHANGED <<output_dir, converted, written, fi>>
         \/ /\ f.write = "write fails"
            /\ output_dir' = [output_dir EXCEPT ![f.base] = [exists |-> TRUE, data |-> <<>>]]
            /\ RaiseFrom("OSError", "write", <<>>)
            /\ UNCHANGED <<converted, written, fi>>
  /\ UNCHANGED <<file_paths, dialogs, file_listbox>>
  /\ UNCHANGED convert_vars

\* isinstance(e, cls) for the exception types in play.
IsInstance(type, cls) ==
  \/ type = cls
  \/ type = "ParserError" /\ cls = "ValueError"
  \/ type \in {"FileNotFoundError", "PermissionError"} /\ cls = "OSError"

\* The title of the error box an exception of this type ends in, by the
\* first except clause that matches it (lines 132-135); "" when none does.
\* pd.errors.ParserError is a subclass of ValueError.
ExceptTitle(type) ==
  IF IsInstance(type, "ValueError") THEN "Missing Column"
  ELSE IF \E cls \in {"ParserError", "TypeError", "ValueError"} : IsInstance(type, cls)
       THEN "Error"
  ELSE ""

\* Lines 132-135: the except clauses around the call of line 130.
HandleExcept ==
  /\ pc = "except"
  /\ LET title == ExceptTitle(exc.type)
     IN  \/ /\ title # ""
            /\ dialogs' = Append(dialogs,
                 [title |-> title, kind |-> exc.kind, cols |-> exc.cols,
                  file |-> IF title = "Error" THEN file_paths[fi].base ELSE "",
                  count |-> 0])
            /\ LoopNext
         \/ /\ title = ""
            /\ pc' = "uncaught"
            /\ UNCHANGED <<dialogs, fi>>
  /\ UNCHANGED <<file_paths, converted, output_dir, file_listbox, exc, written>>
  /\ UNCHANGED convert_vars

\* Mutant: the number of files selected in place of those converted.
SuccessCountSelected == Len(file_paths)

\* len(converted) of the Success box.
SuccessCount == Len(converted)

\* Lines 137-139: `if converted:` report the count and refresh the list.
Finish ==
  /\ pc = "after"
  /\ \/ /\ converted # <<>>
        /\ dialogs' = Append(dialogs,
             [title |-> "Success", kind |-> "", cols |-> <<>>, file |-> "",
              count |-> SuccessCount])
        /\ file_listbox' = ListDir(output_dir)
     \/ /\ converted = <<>>
        /\ UNCHANGED <<dialogs, file_listbox>>
  /\ pc' = "done"
  /\ UNCHANGED <<file_paths, fi, converted, output_dir, exc, written>>
  /\ UNCHANGED convert_vars

Next ==
  \/ ImportFiles
  \/ LoadTable
  \/ NextRow
  \/ WeekStep
  \/ WriteOutput
  \/ HandleExcept
  \/ Finish

\* ------------------------------------------------------------- the inputs
Date(d) == [k |-> "date", v |-> d]

Text(t) == [k |-> "text", v |-> t]

NaN == [k |-> "nan", v |-> <<>>]

Unparseable == [k |-> "bad", v |-> <<>>]

GoodTimes == <<"9:00 AM", "-", "9:50 AM">>

DayTokens ==
  { <<"M", "W", "F">>, <<"T", "T", "H">>, <<"S", "U">>, <<"S", "S", "U">>,
    <<"M", "M">>, <<"t", "h">>, <<"M", "x", "W">>, <<"S">>,
    <<"M", "T", "W", "T", "H", "F">> }

TimeFields ==
  { GoodTimes,
    <<"12:10 PM", " ", "-", " ", "1:00 PM">>,
    <<"12:30 AM", "-", "9:00 AM">>,
    <<"9:00 AM">>,
    <<"9:00 AM", "-", "9:50 AM", "-", "1:00 PM">>,
    <<"9:00", "-", "9:50 AM">>,
    <<"9:00 AM", "-", "13:00 PM">>,
    <<"9:75 AM", "-", "9:50 AM">> }

\* Lines `days|times` and `days | times | location`.
FullLines ==
  {d \o <<"|">> \o t : d \in DayTokens, t \in TimeFields}
  \cup {d \o <<" ", "|", " ">> \o GoodTimes \o <<" ", "|", " ", "Room">> :
          d \in DayTokens}

\* Lines without a "|".
ShortLines == { <<"M", "W", "F">>, <<>> }

\* The lines combined into texts of two and three lines.
MixLines ==
  { <<"M", "W", "F", "|">> \o GoodTimes,
    <<"T", "T", "H", "|">> \o GoodTimes \o <<"|", "Room">>,
    <<"S", "U", "|", "12:10 PM", "-", "1:00 PM">>,
    <<"M", "W", "F">>,
    <<"F", "|", "9:00 AM">> }

PatternTexts ==
  {<<>>} \cup FullLines \cup ShortLines
  \cup {a \o <<"\n">> \o b : a \in MixLines, b \in MixLines}
  \cup {a \o <<"\n">> \o <<"W">> \o <<"\n">> \o b \o <<"\n">> :
          a \in MixLines, b \in MixLines}

StdHeaders == required_cols

StdRow == [course |-> Text(<<"CS101">>),
           pattern |-> Text(<<"M", "W", "F", "|">> \o GoodTimes),
           start |-> Date(0), end |-> Date(11)]

StdFile == [dir |-> "d1", base |-> "a", read |-> "ok", headers |-> StdHeaders,
            rows |-> <<StdRow>>, write |-> "ok"]

HeaderNames ==
  { required_cols[1], required_cols[2], required_cols[3],
    <<" ", "end", " ">>, <<"Course", " ", "Start">>, <<"Meeting", " ", "Start">>,
    <<"Notes">>, <<"Attendance">> }

\* Header rows: those that leave a required column out (in any number and
\* order), and those that give each required column exactly one header.
HeaderRows ==
  {h \in UNION {[1..n -> HeaderNames] : n \in 0..MaxHeaders} :
     \/ Missing(RenamedColumns(h)) # <<>>
     \/ \A i, j \in 1..Len(h) :
          RenameOf(Strip(h[i])) = RenameOf(Strip(h[j])) /\ RenameOf(Strip(h[i])) # Strip(h[i])
             => i = j}

Rows ==
  { StdRow,
    [course |-> NaN, pattern |-> Text(<<"T", "T", "H", "|", "12:10 PM", "-", "1:00 PM">>),
     start |-> Date(1), end |-> Date(9)],
    [StdRow EXCEPT !.pattern = NaN],
    [StdRow EXCEPT !.start = NaN],
    [StdRow EXCEPT !.end = NaN],
    [StdRow EXCEPT !.start = Unparseable],
    [StdRow EXCEPT !.end = Text(<<"Room">>)],
    [StdRow EXCEPT !.start = Date(12)],
    [StdRow EXCEPT !.start = Date(12),
                   !.pattern = Text(<<"M", "|", "9:00", "-", "9:50 AM">>)],
    [StdRow EXCEPT !.pattern = Text(<<"M", "|", "9:00", "-", "9:50 AM">>)] }

Tables == UNION {[1..n -> Rows] : n \in 0..MaxRows}

Files ==
  { StdFile,
    [StdFile EXCEPT !.base = "b", !.rows = <<[StdRow EXCEPT !.pattern = Text(<<"T", "T", "H", "|">> \o GoodTimes)]>>],
    [StdFile EXCEPT !.dir = "d2"],
    [StdFile EXCEPT !.base = "b", !.headers = <<required_cols[1], required_cols[2], required_cols[4]>>],
    [StdFile EXCEPT !.read = "OSError"],
    [StdFile EXCEPT !.write = "open fails"],
    [StdFile EXCEPT !.write = "write fails"],
    [StdFile EXCEPT !.base = "b", !.rows = <<[StdRow EXCEPT !.pattern = Text(<<"M", "|", "9:00 AM">>)]>>] }

Batches == UNION {[1..n -> Files] : n \in 0..MaxFiles}

OldEvent == [summary |-> <<"old">>, dtstart |-> [date |-> 0, time |-> 0],
             dtend |-> [date |-> 0, time |-> 0],
             description |-> [line |-> <<>>, location |-> <<>>]]

OutNames == {"a", "b"}

EmptyDir == [n \in OutNames |-> Absent]

OldDir == [EmptyDir EXCEPT !["a"] = [exists |-> TRUE, data |-> <<OldEvent>>]]

\* The application after setup (lines 164-179), a selection about to be
\* returned by the dialog.
InitWith(batch, dir) ==
  /\ file_paths = batch
  /\ fi = 0
  /\ pc = "dialog"
  /\ converted = <<>>
  /\ dialogs = <<>>
  /\ output_dir = dir
  /\ file_listbox = ListDir(dir)
  /\ df = NoTable
  /\ ri = 0
  /\ week_start = 0
  /\ end_dt = 0
  /\ cal = <<>>
  /\ exc = NoExc
  /\ written = <<>>

Init ==
  \/ \E batch \in Batches, dir \in {EmptyDir, OldDir} : InitWith(batch, dir)
  \/ \E t \in Tables, dir \in {EmptyDir, OldDir} :
       InitWith(<<[StdFile EXCEPT !.rows = t]>>, dir)
  \/ \E h \in HeaderRows, dir \in {EmptyDir, OldDir} :
       InitWith(<<[StdFile EXCEPT !.headers = h]>>, dir)
  \/ \E p \in PatternTexts, s \in 0..6, e \in 0..MaxDay :
       InitWith(<<[StdFile EXCEPT !.rows =
                     <<[StdRow EXCEPT !.pattern = Text(p), !.start = Date(s),
                                      !.end = Date(e)]>>]>>, EmptyDir)

Spec == Init /\ [][Next]_vars

\* ================================================================ claims
Range(q) == {q[i] : i \in DOMAIN q}

RECURSIVE Concat(_)
Concat(qs) == IF qs = <<>> THEN <<>> ELSE Head(qs) \o Concat(Tail(qs))

\* The file being converted, and whether control is inside its conversion.
Converting == pc \in {"rows", "weeks", "except"}

\* The day codes of a token read as a concatenation of codes from
\* {M, T, W, TH, F, S, SU}, longest code first; <<"?">> marks a token that
\* is no such concatenation.
RECURSIVE CodesOf(_)
CodesOf(s) ==
  IF s = <<>> THEN <<>>
  ELSE IF Len(s) >= 2 /\ <<s[1], s[2]>> \in {<<"T", "H">>, <<"S", "U">>}
       THEN <<IF s[1] = "T" THEN "TH" ELSE "SU">> \o CodesOf(SubSeq(s, 3, Len(s)))
       ELSE IF s[1] \in {"M", "T", "W", "F", "S"}
            THEN <<s[1]>> \o CodesOf(Tail(s))
            ELSE <<"?">>

ValidToken(days) == "?" \notin Range(CodesOf(days))

NoRepeatedCode(days) ==
  LET c == CodesOf(days) IN \A i, j \in 1..Len(c) : c[i] = c[j] => i = j

\* The weekdays the codes of a valid token denote (Mon = 0 .. Sun = 6).
DenotedDays(days) == {DAY_MAP[c] : c \in Range(CodesOf(days))}

\* The weekdays the day loop of the code reaches for a token.
DecodedDays(days) ==
  {DAY_MAP[k] : k \in {DayKey(c) : c \in Range(ReplaceTH(days))} \cap DOMAIN DAY_MAP}

\* A well-formed line: days | start-end [| location], both clock texts
\* 12-hour times, the day token a concatenation of day codes.
WellFormedLine(line) ==
  LET parts == StripSplit(line, "|")
  IN  /\ Len(parts) >= 2
      /\ ValidToken(parts[1])
      /\ LET times == StripSplit(parts[2], "-")
         IN  Len(times) = 2 /\ StrptimeOk(times[1]) /\ StrptimeOk(times[2])

\* The table holds one row and every row has been expanded.
OneRowExpanded == pc = "rows" /\ Len(df.rows) = 1 /\ ri > Len(df.rows)

\* The events of cal made from a line, on date d.
InstancesOn(line, d) ==
  {i \in DOMAIN cal : cal[i].description.line = line /\ cal[i].dtstart.date = d}

\* C1: for a row with startDate <= endDate and a well-formed line whose day
\* token repeats no day code, the conversion emits exactly one instance on
\* each date of [startDate, endDate] whose weekday the token decodes to,
\* none on any other date, each at the line's clock times.
C1_OneInstancePerMatchingDate ==
  OneRowExpanded =>
    LET row == df.rows[1]
        lines == SplitLines(StrOf(row.pattern))
    IN  \A n \in DOMAIN lines :
          LET line == lines[n]
              parts == StripSplit(line, "|")
              times == StripSplit(parts[2], "-")
          IN  ( /\ ToDatetimeOk(row.start) /\ ToDatetimeOk(row.end)
                /\ row.start.v <= row.end.v
                /\ WellFormedLine(line)
                /\ NoRepeatedCode(parts[1])
                /\ \A m \in DOMAIN lines : lines[m] = line => m = n )
              => \A d \in 0..(MaxDay + 7) :
                   /\ Cardinality(InstancesOn(line, d)) =
                        IF /\ row.start.v <= d /\ d <= row.end.v
                           /\ Weekday(d) \in DecodedDays(parts[1])
                        THEN 1 ELSE 0
                   /\ \A i \in InstancesOn(line, d) :
                        /\ cal[i].dtstart = [date |-> d, time |-> Strptime(times[1])]
                        /\ cal[i].dtend = [date |-> d, time |-> Strptime(times[2])]

\* C1 without the code SU: the same statement for tokens over
\* {M, T, W, TH, F, S}.
C1_WithoutSU ==
  OneRowExpanded =>
    LET row == df.rows[1]
        lines == SplitLines(StrOf(row.pattern))
    IN  \A n \in DOMAIN lines :
          LET line == lines[n]
              parts == StripSplit(line, "|")
              times == StripSplit(parts[2], "-")
          IN  ( /\ ToDatetimeOk(row.start) /\ ToDatetimeOk(row.end)
                /\ row.start.v <= row.end.v
                /\ WellFormedLine(line)
                /\ NoRepeatedCode(parts[1])
                /\ "SU" \notin Range(CodesOf(parts[1]))
                /\ \A m \in DOMAIN lines : lines[m] = line => m = n )
              => \A d \in 0..(MaxDay + 7) :
                   /\ Cardinality(InstancesOn(line, d)) =
                        IF /\ row.start.v <= d /\ d <= row.end.v
                           /\ Weekday(d) \in DenotedDays(parts[1])
                        THEN 1 ELSE 0
                   /\ \A i \in InstancesOn(line, d) :
                        /\ cal[i].dtstart = [date |-> d, time |-> Strptime(times[1])]
                        /\ cal[i].dtend = [date |-> d, time |-> Strptime(times[2])]

\* C2: create_events_from_pattern never raises for a line whose time field
\* fails to parse.
C2_BadTimeNeverRaises ==
  ~(pc = "except" /\ exc.kind \in {"unpack", "strptime"})

\* C3: for every day token that is a concatenation of codes from
\* {M, T, W, TH, F, S, SU}, the day loop decodes exactly the weekdays the
\* codes denote.
C3_DecodeIsDenoted ==
  pc = "weeks" =>
    LET lines == SplitLines(StrOf(df.rows[ri].pattern))
    IN  \A n \in DOMAIN lines :
          LET parts == StripSplit(lines[n], "|")
          IN  Len(parts) >= 2 /\ ValidToken(parts[1])
                => DecodedDays(parts[1]) = DenotedDays(parts[1])

\* The required column a header counts for under the first matching rule
\* in the order course, pattern/meeting, start, end (0: none).
FirstRule(header) ==
  IF Contains(header, "course") THEN 1
  ELSE IF Contains(header, "pattern") \/ Contains(header, "meeting") THEN 2
  ELSE IF Contains(header, "start") THEN 3
  ELSE IF Contains(header, "end") THEN 4
  ELSE 0

\* The required columns no header of the file counts for.
Unresolved(headers) ==
  {required_cols[c] : c \in {c \in DOMAIN required_cols : \A i \in DOMAIN headers : FirstRule(headers[i]) # c}}

MissingColumnError == pc = "except" /\ exc.type = "ValueError" /\ exc.kind = "missing"

\* C4: the conversion of a readable file fails with the missing-column
\* error exactly when some required column has no header classified to it;
\* the error lists exactly the unresolved columns; no row has been
\* processed and no output written.
C4_MissingColumnIff ==
  Converting /\ file_paths[fi].read = "ok" =>
    LET unresolved == Unresolved(file_paths[fi].headers)
    IN  /\ MissingColumnError <=> unresolved # {}
        /\ MissingColumnError =>
             /\ Range(exc.cols) = unresolved
             /\ ri = 1 /\ cal = <<>>
             /\ fi \notin Range(written)

C4_Witness ==
  /\ MissingColumnError
  /\ exc.cols = <<required_cols[3]>>
  /\ \E i \in DOMAIN file_paths[fi].headers :
       /\ Contains(file_paths[fi].headers[i], "course")
       /\ Contains(file_paths[fi].headers[i], "start")

\* C5: once import_files is over, the conversion of every file of the
\* batch has been attempted: no failure of an earlier file ended the batch
\* (fi is the position of the file attempted last when an exception left
\* import_files, and one past the batch when the loop ran to its end).
C5_AllFilesAttempted ==
  /\ pc = "uncaught" => fi = Len(file_paths)
  /\ pc = "done" /\ file_paths # <<>> => fi = Len(file_paths) + 1

\* C6: a box titled Missing Column is shown only for a required column
\* that could not be resolved.
C6_MissingColumnBoxOnlyForMissingColumn ==
  \A i \in DOMAIN dialogs :
    dialogs[i].title = "Missing Column" => dialogs[i].kind = "missing"

\* A row the claim says is passed over.
SkippedRow(row) ==
  \/ IsNa(row.pattern) \/ IsNa(row.start) \/ IsNa(row.end)
  \/ row.start.k # "date" \/ row.end.k # "date"
  \/ row.start.v > row.end.v

\* The instances of one row: those of each week from ws on, in order.
RECURSIVE WeeksFrom(_, _)
WeeksFrom(row, ws) ==
  IF ws > row.end.v THEN <<>>
  ELSE create_events_from_pattern(StrOf(row.course), StrOf(row.pattern),
                                  ws, row.end.v).events
       \o WeeksFrom(row, ws + 7)

Contribution(row) == IF SkippedRow(row) THEN <<>> ELSE WeeksFrom(row, row.start.v)

\* C7: a row with a missing or unparseable cell, or with startDate after
\* endDate, raises nothing and adds nothing, and the Calendar holds the
\* instances of every other row already passed.
C7_SkippedRowsAddNothing ==
  /\ pc = "except" /\ exc.kind \notin {"read", "missing", "write"}
       => ~SkippedRow(df.rows[ri])
  /\ pc = "rows" =>
       cal = Concat([j \in 1..(ri - 1) |-> Contribution(df.rows[j])])

C7_Witness ==
  /\ pc = "rows" /\ ri > Len(df.rows)
  /\ \E j, k \in DOMAIN df.rows :
       /\ j < k
       /\ SkippedRow(df.rows[j]) /\ df.rows[j].start.k = "bad"
       /\ Contribution(df.rows[k]) # <<>>
  /\ cal # <<>>

IsShortLine(line) == Len(Split(line, "|")) < 2

\* C8: in one call of create_events_from_pattern, when no line with two
\* or more fields raises on its own, the call does not raise and returns,
\* in order, the instances each such line returns alone: a line with
\* fewer than two fields adds nothing and stops nothing.
C8_ShortLineAddsAndStopsNothing ==
  pc = "weeks" /\ week_start <= end_dt =>
    LET course == StrOf(df.rows[ri].course)
        lines == SplitLines(StrOf(df.rows[ri].pattern))
        r == create_events_from_pattern(course, StrOf(df.rows[ri].pattern),
                                        week_start, end_dt)
        alone == [n \in DOMAIN lines |->
                    create_events_from_pattern(course, lines[n], week_start, end_dt)]
    IN  /\ \A n \in DOMAIN lines : IsShortLine(lines[n]) => alone[n] = NoRaise(<<>>)
        /\ (\A n \in DOMAIN lines : ~alone[n].raised)
             => r = NoRaise(Concat([n \in DOMAIN lines |->
                                      IF IsShortLine(lines[n]) THEN <<>>
                                      ELSE alone[n].events]))

C8_Witness ==
  /\ pc = "weeks" /\ week_start > end_dt
  /\ LET lines == SplitLines(StrOf(df.rows[ri].pattern))
     IN  /\ Len(lines) = 3
         /\ IsShortLine(lines[2])
         /\ WellFormedLine(lines[1]) /\ WellFormedLine(lines[3])
         /\ \E i, j \in DOMAIN cal :
              /\ cal[i].description.line = lines[1]
              /\ cal[j].description.line = lines[3]

SuccessBoxes == {i \in DOMAIN dialogs : dialogs[i].title = "Success"}

\* C9 as stated: after any batch the count is reported and is the number
\* of files whose output was written.
C9_CountAlwaysReported ==
  pc = "done" /\ file_paths # <<>> =>
    \E i \in SuccessBoxes : dialogs[i].count = Len(written)

\* C9 amended: a count is reported only when at least one conversion
\* succeeded, a reported count is the number of files whose output was
\* written, and a batch that runs to its end with a success reports it.
C9_ReportedCountIsWritten ==
  /\ \A i \in SuccessBoxes :
       dialogs[i].count = Len(written) /\ dialogs[i].count >= 1
  /\ pc = "done" => (SuccessBoxes # {} <=> written # <<>>)

C9_Witness ==
  /\ pc = "done"
  /\ Len(file_paths) = 2 /\ Len(written) = 1
  /\ \E i \in SuccessBoxes : dialogs[i].count = 1
  /\ \E i \in DOMAIN dialogs : dialogs[i].title = "Missing Column"

\* C10: the destination directory changes only in the step taken after
\* every row has been expanded; the step in which a conversion fails
\* before that leaves it as it was.
C10_DirUnchangedUntilWrite ==
  [][ /\ output_dir' # output_dir => pc = "rows" /\ ri > Len(df.rows)
      /\ pc' = "except" /\ exc'.kind # "write" => output_dir' = output_dir ]_vars

C10_Witness ==
  /\ pc = "except" /\ exc.kind \in {"missing", "strptime", "unpack"}
  /\ file_paths[fi].base = "a"
  /\ output_dir["a"] = [exists |-> TRUE, data |-> <<OldEvent>>]

====
